---- MODULE Spec2Model ----
(***************************************************************************)
(* Late-clone template persistence of the containerd shim:                 *)
(*   saveAsTemplate (cmd/containerd-shim-runhcs-v1/clone.go, package main) *)
(*   SaveTemplateConfig / FetchTemplateConfig / RemoveSavedTemplateConfig  *)
(*   and their helpers (package clone).                                    *)
(* Callers are goroutines/shim processes that share one registry.  Every   *)
(* call is split at the registry operations it performs (Open, Get,        *)
(* Create, Remove, deferred Close), which is where calls can interleave.   *)
(***************************************************************************)
EXTENDS Integers, Sequences, FiniteSets, TLC

\* ------------------------------------------------------------------ bounds
\* longest resource list a generated or saved template config carries
MaxRes == 1
\* calls (of Save, Fetch, Remove or saveAsTemplate) begun in one behaviour
MaxCalls == 3
\* longest resource list given to the codec on its own
MaxLen == 2

\* ------------------------------------------------------------- parameters
Procs == {"p1", "p2"}
TemplateIDs == {"vm1", "vm2"}
Registered == {"VSMBShare", "SCSIMount"}
Kinds == Registered \cup {"Plan9Share"}

configRoot == "LateClone"
configKey == "UVMConfig"

NoHandle == 0
HandleIds == 1..(Cardinality(Procs) + 1)

RECURSIVE SeqsUpTo(_, _)
SeqsUpTo(S, n) ==
  IF n = 0 THEN {<<>>}
  ELSE LET shorter == SeqsUpTo(S, n - 1)
       IN shorter \cup {Append(s, x) : s \in {t \in shorter : Len(t) = n - 1}, x \in S}

ResourceLists == SeqsUpTo(Kinds, MaxRes)

\* uvm.UVMTemplateConfig: the id of the template VM and its cloneable resources
UVMTemplateConfig(id, res) == [UVMID |-> id, Resources |-> res]

\* ------------------------------------------------------------------ errors
\* A Go error value: its dynamic type and the words of its Error() text.
nil == [type |-> "nil", msg |-> <<>>]

\* regstate.NotFoundError{ID}
NotFoundError(id) == [type |-> "NotFoundError", msg |-> <<"ID", id, "was not found">>]

\* any other failure of the registry (access denied, I/O, ...)
StoreError(what) == [type |-> "StoreError", msg |-> <<what, "failed">>]

\* Create on a key that already exists
ExistsError(id) == [type |-> "ExistsError", msg |-> <<"ID", id, "already exists">>]

\* an error returned by a *uvm.UtilityVM method
HostError(what) == [type |-> "HostError", msg |-> <<what, "failed">>]

\* gob's encode/decode failures
GobError(what) == [type |-> "GobError", msg |-> <<"gob:", what>>]

\* regstate.IsNotFoundError: a type assertion on *NotFoundError
IsNotFoundError(e) == e.type = "NotFoundError"

\* the text %s prints for an error operand
ErrText(e) == IF e = nil THEN <<"%!s(<nil>)">> ELSE e.msg

\* fmt.Errorf(format, ..., err) with the verb %s: a fresh *errors.errorString
\* holding the formatted text; the operand's type is not kept.
Errorf(words, e) == [type |-> "errorString", msg |-> words \o ErrText(e)]

\* ------------------------------------------------------------------- codec
\* A *uvm.UVMTemplateConfig or a []byte result that may be nil: <<>> is nil,
\* <<v>> is a value.
Nil == <<>>
Some(v) == <<v>>

\* gob.Encoder.Encode of a UVMTemplateConfig.  The stream is a list of words:
\* the fields in order, zero-valued fields left out, each interface value
\* preceded by its registered type name, and the struct terminator.  Encoding
\* an interface value whose type was never registered fails.
gobEncode(utc) ==
  IF \E i \in 1..Len(utc.Resources) : utc.Resources[i] \notin Registered
  THEN [bytes |-> <<>>, err |-> GobError("type not registered for interface")]
  ELSE [bytes |-> <<"UVMID", utc.UVMID>>
                  \o (IF utc.Resources # <<>> THEN <<"Resources">> \o utc.Resources ELSE <<>>)
                  \o <<"end">>,
        err |-> nil]

\* gob.Decoder.Decode into a zero UVMTemplateConfig: fills the fields it can
\* read and stops at the first thing it cannot.
gobDecode(b) ==
  LET idOK == Len(b) >= 2 /\ b[1] = "UVMID"
      closed == idOK /\ Len(b) >= 3 /\ b[Len(b)] = "end"
      hasRes == Len(b) >= 4 /\ b[3] = "Resources"
      names == IF idOK /\ hasRes
               THEN SubSeq(b, 4, IF closed THEN Len(b) - 1 ELSE Len(b))
               ELSE <<>>
      k == CHOOSE n \in 0..Len(names) :
             /\ \A i \in 1..n : names[i] \in Registered
             /\ (n = Len(names) \/ names[n + 1] \notin Registered)
      partial == UVMTemplateConfig(IF idOK THEN b[2] ELSE "", SubSeq(names, 1, k))
  IN IF ~closed \/ (Len(b) > 3 /\ ~(hasRes /\ Len(b) >= 5))
     THEN [utc |-> partial, err |-> GobError("unexpected EOF")]
     ELSE IF k < Len(names)
     THEN [utc |-> partial, err |-> GobError("name not registered for interface")]
     ELSE [utc |-> partial, err |-> nil]

\* encodeTemplateConfig that encodes the id only
encodeTemplateConfig_DropsResources(utc) ==
  LET r == gobEncode(UVMTemplateConfig(utc.UVMID, <<>>))
  IN IF r.err # nil
     THEN [bytes |-> Nil, err |-> Errorf(<<"error while encoding template config:">>, r.err)]
     ELSE [bytes |-> r.bytes, err |-> nil]

\* clone.go 70-78
encodeTemplateConfig(utc) ==
  LET r == gobEncode(utc)
  IN IF r.err # nil
     THEN [bytes |-> Nil, err |-> Errorf(<<"error while encoding template config:">>, r.err)]
     ELSE [bytes |-> r.bytes, err |-> nil]

\* decodeTemplateConfig that returns its zero value without decoding into it
decodeTemplateConfig_ZeroValue(encodedBytes) ==
  [utc |-> Some(UVMTemplateConfig("", <<>>)), err |-> nil]

\* clone.go 80-89
decodeTemplateConfig(encodedBytes) ==
  LET r == gobDecode(encodedBytes)
  IN IF r.err # nil
     THEN [utc |-> Nil, err |-> Errorf(<<"error while decoding template config:">>, r.err)]
     ELSE [utc |-> Some(r.utc), err |-> nil]

\* ------------------------------------------ the callers' decisions (pure)
\* SaveTemplateConfig that takes an existing record for "already saved"
SaveAfterProbe_ExistingIsFine(utc, e) ==
  IF e = nil THEN [proceed |-> FALSE, bytes |-> Nil, err |-> nil]
  ELSE IF ~IsNotFoundError(e)
  THEN [proceed |-> FALSE, bytes |-> Nil,
        err |-> Errorf(<<"parent VM(ID:", utc.UVMID, ") config shouldn't exit in registry">>, e)]
  ELSE LET enc == encodeTemplateConfig(utc)
       IN IF enc.err # nil
          THEN [proceed |-> FALSE, bytes |-> Nil,
                err |-> Errorf(<<"failed to encode template config:">>, enc.err)]
          ELSE [proceed |-> TRUE, bytes |-> enc.bytes, err |-> nil]

\* SaveTemplateConfig that refuses only when the probe found a record, and
\* goes on after any failed probe
SaveAfterProbe_AnyErrorProceeds(utc, e) ==
  IF e = nil
  THEN [proceed |-> FALSE, bytes |-> Nil,
        err |-> Errorf(<<"parent VM(ID:", utc.UVMID, ") config shouldn't exit in registry">>, e)]
  ELSE LET enc == encodeTemplateConfig(utc)
       IN IF enc.err # nil
          THEN [proceed |-> FALSE, bytes |-> Nil,
                err |-> Errorf(<<"failed to encode template config:">>, enc.err)]
          ELSE [proceed |-> TRUE, bytes |-> enc.bytes, err |-> nil]

\* SaveTemplateConfig that returns encodeTemplateConfig's error as it is
SaveAfterProbe_BareEncodeError(utc, e) ==
  IF ~IsNotFoundError(e)
  THEN [proceed |-> FALSE, bytes |-> Nil,
        err |-> Errorf(<<"parent VM(ID:", utc.UVMID, ") config shouldn't exit in registry">>, e)]
  ELSE LET enc == encodeTemplateConfig(utc)
       IN IF enc.err # nil
          THEN [proceed |-> FALSE, bytes |-> Nil, err |-> enc.err]
          ELSE [proceed |-> TRUE, bytes |-> enc.bytes, err |-> nil]

\* clone.go 146-155: SaveTemplateConfig from the result err of the existence
\* probe up to the call of storePersistedUVMConfig.
SaveAfterProbe(utc, e) ==
  IF ~IsNotFoundError(e)
  THEN [proceed |-> FALSE, bytes |-> Nil,
        err |-> Errorf(<<"parent VM(ID:", utc.UVMID, ") config shouldn't exit in registry">>, e)]
  ELSE LET enc == encodeTemplateConfig(utc)
       IN IF enc.err # nil
          THEN [proceed |-> FALSE, bytes |-> Nil,
                err |-> Errorf(<<"failed to encode template config:">>, enc.err)]
          ELSE [proceed |-> TRUE, bytes |-> enc.bytes, err |-> nil]

\* SaveTemplateConfig with the test of the store's error inverted
SaveAfterStore_Inverted(e) ==
  IF e = nil THEN Errorf(<<"failed to store encoded template config:">>, e) ELSE nil

\* SaveTemplateConfig that does not test the store's error
SaveAfterStore_Swallows(e) == nil

\* clone.go 156-160: SaveTemplateConfig's result from storePersistedUVMConfig's
SaveAfterStore(e) ==
  IF e # nil THEN Errorf(<<"failed to store encoded template config:">>, e) ELSE nil

\* FetchTemplateConfig that returns what the decoder had filled in before it
\* failed, along with the error
FetchAfterLoad_Partial(encodedBytes, e) ==
  IF e # nil
  THEN [utc |-> Nil, err |-> Errorf(<<"failed to fetch encoded template config:">>, e)]
  ELSE LET dec == decodeTemplateConfig(encodedBytes)
       IN IF dec.err # nil
          THEN [utc |-> Some(gobDecode(encodedBytes).utc),
                err |-> Errorf(<<"failed to decode template config:">>, dec.err)]
          ELSE [utc |-> dec.utc, err |-> nil]

\* clone.go 172-181: FetchTemplateConfig from loadPersistedUVMConfig's result
FetchAfterLoad(encodedBytes, e) ==
  IF e # nil
  THEN [utc |-> Nil, err |-> Errorf(<<"failed to fetch encoded template config:">>, e)]
  ELSE LET dec == decodeTemplateConfig(encodedBytes)
       IN IF dec.err # nil
          THEN [utc |-> Nil, err |-> Errorf(<<"failed to decode template config:">>, dec.err)]
          ELSE [utc |-> dec.utc, err |-> nil]

\* removePersistedUVMConfig without the IsNotFoundError tests
RemoveResult_NoAbsorb(e) == e

\* clone.go 126-131 and 134-139: removePersistedUVMConfig's result from the
\* error of Open, or of Remove
RemoveResult(e) == IF e # nil /\ ~IsNotFoundError(e) THEN e ELSE nil

\* saveAsTemplate that wraps the error it returns
saveAsTemplateStep_Wraps(e, next) ==
  IF e # nil THEN [pc |-> "done", err |-> Errorf(<<"failed to save as template:">>, e)]
  ELSE [pc |-> next, err |-> nil]

\* saveAsTemplate without the call of CloseGCSConnection (lines 22-24)
saveAsTemplateStep_SkipsClose(e, next) ==
  IF e # nil THEN [pc |-> "done", err |-> e]
  ELSE [pc |-> IF next = "wf_gcs" THEN "wf_gen" ELSE next, err |-> nil]

\* saveAsTemplate that does not test SaveTemplateConfig's error (lines 32-34)
saveAsTemplateStep_SkipPersistCheck(e, next) ==
  IF e # nil /\ next # "wf_mark" THEN [pc |-> "done", err |-> e]
  ELSE [pc |-> next, err |-> nil]

\* saveAsTemplate that removes the saved config when SaveAsTemplate fails
saveAsTemplateStep_RollsBack(e, next) ==
  IF e # nil THEN [pc |-> IF next = "done" THEN "rm_open" ELSE "done", err |-> e]
  ELSE [pc |-> next, err |-> nil]

\* clone.go 18-20, 22-24, 28-30, 32-34, 36-39: saveAsTemplate after a step
\* returned e: return e, or go on to the step at label next.
saveAsTemplateStep(e, next) ==
  IF e # nil THEN [pc |-> "done", err |-> e] ELSE [pc |-> next, err |-> nil]

\* ------------------------------------------------------------------- state
VARIABLES
  nsExists,     \* the registry root key configRoot exists
  store,        \* registry under configRoot: id -> (field -> bytes)
  openHandles,  \* the *regstate.Key handles opened and not yet closed
  vm,           \* the utility VMs: id -> [nics, gcs, template]
  op,           \* per caller: the function it runs (or ran last)
  pc,           \* per caller: where it stands in that function
  callID,       \* per caller: the template id of the call (id, utc.UVMID, host)
  utc,          \* per caller: the local *uvm.UVMTemplateConfig, nil or a config
  sk,           \* per caller: the local handle sk
  err,          \* per caller: the local err of the helper it runs
  data,         \* per caller: the local []byte (encodedConfig / encodedBytes)
  ret,          \* per caller: what its last call returned
  hist,         \* history: registry operations of the caller's current call
  steps,        \* history: the steps saveAsTemplate invoked, with their results
  writer,       \* history: id -> the caller whose Create wrote the record
  pre,          \* history: what held for the call's id when the call began
  rmSince,      \* history: a removal of the call's id ran since the call began
  crSince,      \* history: another call created the call's id since the call began
                \*          (for a Remove: since its sk.Remove)
  saved,        \* history: id -> the config of a returned, not yet removed Save,
                \*          and whether a saveAsTemplate failed after that Save
  persisted,    \* history: the ids for which a SaveTemplateConfig returned success
  calls         \* history: the number of calls begun so far

vars == <<nsExists, store, openHandles, vm, op, pc, callID, utc, sk, err, data, ret,
          hist, steps, writer, pre, rmSince, crSince, saved, persisted, calls>>
regVars == <<nsExists, store, writer>>
callVars == <<op, callID, pre, calls>>
saveVars == <<steps, saved, persisted>>

NoRet == [utc |-> Nil, err |-> nil]
Unsaved == [ok |-> FALSE, utc |-> Nil, rec |-> <<>>, late |-> FALSE]
Pending == [type |-> "pending", msg |-> <<>>]
Event(o, e) == [op |-> o, err |-> e]
Step(n, e) == [name |-> n, err |-> e]
HasRecord(id) == id \in DOMAIN store

\* -------------------------------------- the registry (package regstate)
\* regstate.Open(root, false): a handle, NotFoundError when the root key is
\* missing, or another failure.
regOpen(root, fail) ==
  IF fail THEN StoreError("Open")
  ELSE IF root # configRoot \/ ~nsExists THEN NotFoundError(root)
  ELSE nil

\* the handle Open returns: one no other caller holds
FreshHandle ==
  CHOOSE h \in HandleIds \ openHandles : \A g \in HandleIds \ openHandles : h <= g

\* (*Key).Get(id, key, &state)
regGet(id, key, fail) ==
  IF fail THEN [data |-> <<>>, err |-> StoreError("Get")]
  ELSE IF ~HasRecord(id) \/ key \notin DOMAIN store[id]
  THEN [data |-> <<>>, err |-> NotFoundError(id)]
  ELSE [data |-> store[id][key], err |-> nil]

\* (*Key).Create(id, key, state): fails if the key exists
regCreate(id, key, state, fail) ==
  IF fail THEN [store |-> store, err |-> StoreError("Create")]
  ELSE IF HasRecord(id) THEN [store |-> store, err |-> ExistsError(id)]
  ELSE [store |-> [i \in DOMAIN store \cup {id} |->
                     IF i = id THEN [k \in {key} |-> state] ELSE store[i]],
        err |-> nil]

\* (*Key).Remove(id)
regRemove(id, fail) ==
  IF fail THEN [store |-> store, err |-> StoreError("Remove")]
  ELSE IF ~HasRecord(id) THEN [store |-> store, err |-> NotFoundError(id)]
  ELSE [store |-> [i \in DOMAIN store \ {id} |-> store[i]], err |-> nil]

\* a Close placed before the final return instead of a deferred one
deferClose_OnlyOnSuccess(handles, h, e) == IF e = nil THEN handles \ {h} ELSE handles

\* clone.go 98, 114, 132: defer sk.Close() of a helper that returns e
deferClose(handles, h, e) == handles \ {h}

\* ------------------------------------- the VM (package uvm), per method
hostRemoveAllNICs(v, fail) ==
  IF fail THEN [vm |-> v, err |-> HostError("RemoveAllNICs")]
  ELSE [vm |-> [v EXCEPT !.nics = FALSE], err |-> nil]

hostCloseGCSConnection(v, fail) ==
  IF fail THEN [vm |-> v, err |-> HostError("CloseGCSConnection")]
  ELSE [vm |-> [v EXCEPT !.gcs = FALSE], err |-> nil]

hostGenerateTemplateConfig(id, res, fail) ==
  IF fail THEN [utc |-> Nil, err |-> HostError("GenerateTemplateConfig")]
  ELSE [utc |-> Some(UVMTemplateConfig(id, res)), err |-> nil]

hostSaveAsTemplate(v, fail) ==
  IF fail THEN [vm |-> v, err |-> HostError("SaveAsTemplate")]
  ELSE [vm |-> [v EXCEPT !.template = TRUE], err |-> nil]

\* -------------------------------------------------------------------- Init
Init ==
  /\ nsExists \in BOOLEAN
  /\ store = [i \in {} |-> <<>>]
  /\ writer = [i \in {} |-> ""]
  /\ openHandles = {}
  /\ vm = [i \in TemplateIDs |-> [nics |-> TRUE, gcs |-> TRUE, template |-> FALSE]]
  /\ op = [p \in Procs |-> "none"]
  /\ pc = [p \in Procs |-> "done"]
  /\ callID = [p \in Procs |-> ""]
  /\ utc = [p \in Procs |-> Nil]
  /\ sk = [p \in Procs |-> NoHandle]
  /\ err = [p \in Procs |-> nil]
  /\ data = [p \in Procs |-> <<>>]
  /\ ret = [p \in Procs |-> NoRet]
  /\ hist = [p \in Procs |-> <<>>]
  /\ steps = [p \in Procs |-> <<>>]
  /\ pre = [p \in Procs |-> "other"]
  /\ rmSince = [p \in Procs |-> FALSE]
  /\ crSince = [p \in Procs |-> FALSE]
  /\ saved = [i \in TemplateIDs |-> Unsaved]
  /\ persisted = {}
  /\ calls = 0

\* ------------------------------------------- a registry that holds records
\* The registry outlives the shims: a record can be one that an earlier shim
\* saved, one that was cut short or damaged since, or one written by a build
\* that registers other resource types.
ValidBlobs(id) ==
  {gobEncode(UVMTemplateConfig(id, r)).bytes : r \in SeqsUpTo(Registered, MaxRes)}
TruncatedBlobs(id) ==
  UNION {{SubSeq(b, 1, n) : n \in 0..(Len(b) - 1)} : b \in ValidBlobs(id)}
UnregisteredBlobs(id) ==
  {<<"UVMID", id, "Resources">> \o r \o <<"end">> :
     r \in (ResourceLists \ SeqsUpTo(Registered, MaxRes))}
MalformedBlobs(id) == {<<"junk">>, <<"UVMID", id, "junk", "end">>}
CorruptBlobs(id) == TruncatedBlobs(id) \cup UnregisteredBlobs(id) \cup MalformedBlobs(id)

\* the ids that have a record when the shims start
StoredIDs == {"vm1"}
\* who wrote those records: no caller of this behaviour
Earlier == "earlier"

InitStored ==
  /\ nsExists = TRUE
  /\ \E b \in ValidBlobs("vm1") \cup CorruptBlobs("vm1") :
       store = [i \in StoredIDs |-> [k \in {configKey} |-> b]]
  /\ writer = [i \in StoredIDs |-> Earlier]
  /\ openHandles = {}
  /\ vm = [i \in TemplateIDs |-> [nics |-> TRUE, gcs |-> TRUE, template |-> FALSE]]
  /\ op = [p \in Procs |-> "none"]
  /\ pc = [p \in Procs |-> "done"]
  /\ callID = [p \in Procs |-> ""]
  /\ utc = [p \in Procs |-> Nil]
  /\ sk = [p \in Procs |-> NoHandle]
  /\ err = [p \in Procs |-> nil]
  /\ data = [p \in Procs |-> <<>>]
  /\ ret = [p \in Procs |-> NoRet]
  /\ hist = [p \in Procs |-> <<>>]
  /\ steps = [p \in Procs |-> <<>>]
  /\ pre = [p \in Procs |-> "other"]
  /\ rmSince = [p \in Procs |-> FALSE]
  /\ crSince = [p \in Procs |-> FALSE]
  /\ saved = [i \in TemplateIDs |-> Unsaved]
  /\ persisted = {}
  /\ calls = 0

\* ----------------------------------------------------------------- history
\* a removal of id runs: no Save of id counts as "returned and not removed"
NoteRemove(p, id) ==
  /\ rmSince' = [q \in Procs |->
                   IF q # p /\ callID[q] = id THEN TRUE ELSE rmSince[q]]
  /\ saved' = [saved EXCEPT ![id] = Unsaved]

\* p's Create of id returned e
NoteCreate(p, id, e) ==
  crSince' = [q \in Procs |->
                IF e = nil /\ q # p /\ callID[q] = id THEN TRUE ELSE crSince[q]]

\* p's saveAsTemplate of id got e from SaveAsTemplate, after its
\* SaveTemplateConfig returned success: a late failure, unless the id was
\* removed in between
NoteLate(p, id, e) ==
  saved' = IF e # nil /\ ~rmSince[p] /\ saved[id].ok
           THEN [saved EXCEPT ![id].late = TRUE]
           ELSE saved

\* p takes a registry step o that returned e
Log(p, o, e) == hist' = [hist EXCEPT ![p] = Append(@, Event(o, e))]

\* ------------------------------------------------------------------- calls
\* p moves to label l with its locals set
Goto(p, l, u, e, d) ==
  /\ pc' = [pc EXCEPT ![p] = l]
  /\ utc' = [utc EXCEPT ![p] = u]
  /\ err' = [err EXCEPT ![p] = e]
  /\ data' = [data EXCEPT ![p] = d]
  /\ UNCHANGED ret

\* p's call returns (u, e); its locals are gone
Return(p, u, e) ==
  /\ pc' = [pc EXCEPT ![p] = "done"]
  /\ ret' = [ret EXCEPT ![p] = [utc |-> u, err |-> e]]
  /\ utc' = [utc EXCEPT ![p] = Nil]
  /\ err' = [err EXCEPT ![p] = nil]
  /\ data' = [data EXCEPT ![p] = <<>>]

\* p opens the root key: sk, err := regstate.Open(configRoot, false)
Opened(p) ==
  /\ sk' = [sk EXCEPT ![p] = FreshHandle]
  /\ openHandles' = openHandles \cup {FreshHandle}

\* p's helper returns with err[p]: its deferred sk.Close() runs
Closed(p) ==
  /\ openHandles' = deferClose(openHandles, sk[p], err[p])
  /\ sk' = [sk EXCEPT ![p] = NoHandle]

\* A caller starts one of the functions in O.
BeginOf(p, O) ==
  /\ pc[p] = "done"
  /\ calls < MaxCalls
  /\ calls' = calls + 1
  /\ \E o \in O, id \in TemplateIDs, res \in ResourceLists :
       /\ o # "Save" => res = <<>>
       /\ op' = [op EXCEPT ![p] = o]
       /\ callID' = [callID EXCEPT ![p] = id]
       /\ utc' = [utc EXCEPT ![p] =
                    IF o = "Save" THEN Some(UVMTemplateConfig(id, res)) ELSE Nil]
       /\ pc' = [pc EXCEPT ![p] =
                   CASE o = "Workflow" -> "wf_nics"
                     [] o = "Remove" -> "rm_open"
                     [] OTHER -> "load_open"]
       /\ pre' = [pre EXCEPT ![p] =
                    IF saved[id].late THEN "late"
                    ELSE IF saved[id].ok THEN "saved"
                    ELSE IF ~HasRecord(id) THEN "absent" ELSE "other"]
  /\ ret' = [ret EXCEPT ![p] = NoRet]
  /\ hist' = [hist EXCEPT ![p] = <<>>]
  /\ steps' = [steps EXCEPT ![p] = <<>>]
  /\ rmSince' = [rmSince EXCEPT ![p] = FALSE]
  /\ crSince' = [crSince EXCEPT ![p] = FALSE]
  /\ UNCHANGED <<regVars, openHandles, vm, sk, err, data, saved, persisted>>

\* clone.go 145-161: SaveTemplateConfig returns e, to its caller or into
\* saveAsTemplate at line 32.
SaveReturns(p, e) ==
  LET id == callID[p]
      n == saveAsTemplateStep(e, "wf_mark")
  IN /\ saved' = IF e = nil /\ HasRecord(id) /\ writer[id] = p
                 THEN [saved EXCEPT ![id] =
                         [ok |-> TRUE, utc |-> utc[p], rec |-> store[id][configKey],
                          late |-> FALSE]]
                 ELSE saved
     /\ persisted' = IF e = nil THEN persisted \cup {id} ELSE persisted
     /\ IF op[p] = "Workflow"
        THEN /\ steps' = [steps EXCEPT ![p][Len(steps[p])].err = e]
             /\ IF n.pc = "done" THEN Return(p, Nil, n.err)
                ELSE Goto(p, n.pc, utc[p], nil, <<>>)
        ELSE /\ Return(p, Nil, e)
             /\ UNCHANGED steps

\* loadPersistedUVMConfig returned (bytes, e): FetchTemplateConfig finishes
\* (172-181); SaveTemplateConfig checks the probe and encodes (146-155).
AfterLoad(p, bytes, e) ==
  IF op[p] = "Fetch"
  THEN /\ Return(p, FetchAfterLoad(bytes, e).utc, FetchAfterLoad(bytes, e).err)
       /\ UNCHANGED saveVars
  ELSE LET r == SaveAfterProbe(utc[p][1], e)
       IN IF r.proceed
          THEN /\ Goto(p, "store_open", utc[p], nil, r.bytes)
               /\ UNCHANGED saveVars
          ELSE SaveReturns(p, r.err)

\* clone.go 94-97: loadPersistedUVMConfig opens the root key
LoadOpen(p) ==
  /\ pc[p] = "load_open"
  /\ openHandles # HandleIds
  /\ \E fail \in BOOLEAN :
       LET e == regOpen(configRoot, fail)
       IN /\ Log(p, "Open", e)
          /\ IF e = nil
             THEN /\ Opened(p)
                  /\ Goto(p, "load_get", utc[p], nil, <<>>)
                  /\ UNCHANGED saveVars
             ELSE /\ AfterLoad(p, <<>>, e)
                  /\ UNCHANGED <<sk, openHandles>>
  /\ UNCHANGED <<regVars, vm, callVars, rmSince, crSince>>

\* clone.go 100-101: sk.Get(id, configKey, &encodedConfig)
LoadGet(p) ==
  /\ pc[p] = "load_get"
  /\ \E fail \in BOOLEAN :
       LET r == regGet(callID[p], configKey, fail)
       IN /\ Log(p, "Get", r.err)
          /\ Goto(p, "load_ret", utc[p], r.err, r.data)
  /\ UNCHANGED <<regVars, openHandles, vm, callVars, sk, steps, rmSince, crSince, saved, persisted>>

\* a FetchTemplateConfig that deletes the record it cannot decode
LoadRet_DropsUndecodable(p) ==
  /\ pc[p] = "load_ret"
  /\ Closed(p)
  /\ Log(p, "Close", nil)
  /\ AfterLoad(p, IF err[p] # nil THEN <<>> ELSE data[p], err[p])
  /\ LET id == callID[p]
         drop == /\ op[p] = "Fetch" /\ err[p] = nil /\ HasRecord(id)
                 /\ decodeTemplateConfig(data[p]).err # nil
     IN /\ store' = IF drop THEN [i \in DOMAIN store \ {id} |-> store[i]] ELSE store
        /\ writer' = IF drop THEN [i \in DOMAIN store \ {id} |-> writer[i]] ELSE writer
  /\ UNCHANGED <<nsExists, vm, callVars, rmSince, crSince>>

\* clone.go 98, 102, 104: the deferred Close runs and load returns
LoadRet(p) ==
  /\ pc[p] = "load_ret"
  /\ Closed(p)
  /\ Log(p, "Close", nil)
  /\ AfterLoad(p, IF err[p] # nil THEN <<>> ELSE data[p], err[p])
  /\ UNCHANGED <<regVars, vm, callVars, rmSince, crSince>>

\* clone.go 110-113: storePersistedUVMConfig opens the root key
StoreOpen(p) ==
  /\ pc[p] = "store_open"
  /\ openHandles # HandleIds
  /\ \E fail \in BOOLEAN :
       LET e == regOpen(configRoot, fail)
       IN /\ Log(p, "Open", e)
          /\ IF e = nil
             THEN /\ Opened(p)
                  /\ Goto(p, "store_create", utc[p], nil, data[p])
                  /\ UNCHANGED saveVars
             ELSE /\ SaveReturns(p, SaveAfterStore(e))
                  /\ UNCHANGED <<sk, openHandles>>
  /\ UNCHANGED <<regVars, vm, callVars, rmSince, crSince>>

\* storePersistedUVMConfig that writes the value whether or not the key exists
StoreCreate_Overwrites(p) ==
  /\ pc[p] = "store_create"
  /\ \E fail \in BOOLEAN :
       LET id == callID[p]
           r == IF fail THEN [store |-> store, err |-> StoreError("Create")]
                ELSE [store |-> [i \in DOMAIN store \cup {id} |->
                                   IF i = id THEN [k \in {configKey} |-> data[p]]
                                   ELSE store[i]],
                      err |-> nil]
       IN /\ store' = r.store
          /\ writer' = IF r.err = nil
                       THEN [i \in DOMAIN r.store |-> IF i = id THEN p ELSE writer[i]]
                       ELSE writer
          /\ Log(p, "Create", r.err)
          /\ Goto(p, "store_ret", utc[p], r.err, data[p])
          /\ NoteCreate(p, id, r.err)
  /\ UNCHANGED <<nsExists, openHandles, vm, callVars, sk, steps, rmSince, saved, persisted>>

\* clone.go 116: sk.Create(id, configKey, encodedConfig)
StoreCreate(p) ==
  /\ pc[p] = "store_create"
  /\ \E fail \in BOOLEAN :
       LET id == callID[p]
           r == regCreate(id, configKey, data[p], fail)
       IN /\ store' = r.store
          /\ writer' = IF r.err = nil
                       THEN [i \in DOMAIN r.store |-> IF i = id THEN p ELSE writer[i]]
                       ELSE writer
          /\ Log(p, "Create", r.err)
          /\ Goto(p, "store_ret", utc[p], r.err, data[p])
          /\ NoteCreate(p, id, r.err)
  /\ UNCHANGED <<nsExists, openHandles, vm, callVars, sk, steps, rmSince, saved, persisted>>

\* clone.go 114, 117, 119, 156-160: the deferred Close runs, store returns
\* and SaveTemplateConfig returns
StoreRet(p) ==
  /\ pc[p] = "store_ret"
  /\ Closed(p)
  /\ Log(p, "Close", nil)
  /\ SaveReturns(p, SaveAfterStore(err[p]))
  /\ UNCHANGED <<regVars, vm, callVars, rmSince, crSince>>

\* clone.go 125-131, 166-168: removePersistedUVMConfig opens the root key
RmOpen(p) ==
  /\ pc[p] = "rm_open"
  /\ openHandles # HandleIds
  /\ \E fail \in BOOLEAN :
       LET e == regOpen(configRoot, fail)
       IN /\ Log(p, "Open", e)
          /\ IF e = nil
             THEN /\ Opened(p)
                  /\ Goto(p, "rm_remove", Nil, nil, <<>>)
             ELSE /\ Return(p, Nil, RemoveResult(e))
                  /\ UNCHANGED <<sk, openHandles>>
  /\ NoteRemove(p, callID[p])
  /\ UNCHANGED <<regVars, vm, callVars, steps, crSince, persisted>>

\* clone.go 134: sk.Remove(id)
RmRemove(p) ==
  /\ pc[p] = "rm_remove"
  /\ \E fail \in BOOLEAN :
       LET r == regRemove(callID[p], fail)
       IN /\ store' = r.store
          /\ writer' = [i \in DOMAIN r.store |-> writer[i]]
          /\ Log(p, "Remove", r.err)
          /\ Goto(p, "rm_ret", Nil, r.err, <<>>)
  /\ NoteRemove(p, callID[p])
  /\ crSince' = [crSince EXCEPT ![p] = FALSE]
  /\ UNCHANGED <<nsExists, openHandles, vm, callVars, sk, steps, persisted>>

\* clone.go 132, 135-140, 166-168: the deferred Close runs, remove returns
RmRet(p) ==
  /\ pc[p] = "rm_ret"
  /\ Closed(p)
  /\ Log(p, "Close", nil)
  /\ Return(p, Nil, RemoveResult(err[p]))
  /\ UNCHANGED <<regVars, vm, callVars, steps, rmSince, crSince, saved, persisted>>

\* ------------------------------------------------- saveAsTemplate (main)
\* a step of saveAsTemplate returned (u, e): lines 18-39
WorkflowGoes(p, name, u, e, next) ==
  LET n == saveAsTemplateStep(e, next)
  IN /\ steps' = [steps EXCEPT ![p] = Append(@, Step(name, e))]
     /\ IF n.pc = "done" THEN Return(p, Nil, n.err)
        ELSE Goto(p, n.pc, u, nil, <<>>)

\* clone.go 18-20: host.RemoveAllNICs(ctx)
WfRemoveAllNICs(p) ==
  /\ pc[p] = "wf_nics"
  /\ \E fail \in BOOLEAN :
       LET r == hostRemoveAllNICs(vm[callID[p]], fail)
       IN /\ vm' = [vm EXCEPT ![callID[p]] = r.vm]
          /\ WorkflowGoes(p, "RemoveAllNICs", Nil, r.err, "wf_gcs")
  /\ UNCHANGED <<regVars, openHandles, callVars, sk, hist, rmSince, crSince, saved, persisted>>

\* clone.go 22-24: host.CloseGCSConnection()
WfCloseGCSConnection(p) ==
  /\ pc[p] = "wf_gcs"
  /\ \E fail \in BOOLEAN :
       LET r == hostCloseGCSConnection(vm[callID[p]], fail)
       IN /\ vm' = [vm EXCEPT ![callID[p]] = r.vm]
          /\ WorkflowGoes(p, "CloseGCSConnection", Nil, r.err, "wf_gen")
  /\ UNCHANGED <<regVars, openHandles, callVars, sk, hist, rmSince, crSince, saved, persisted>>

\* clone.go 26-30: utc, err = host.GenerateTemplateConfig()
WfGenerateTemplateConfig(p) ==
  /\ pc[p] = "wf_gen"
  /\ \E fail \in BOOLEAN, res \in ResourceLists :
       LET r == hostGenerateTemplateConfig(callID[p], res, fail)
       IN /\ fail => res = <<>>
          /\ WorkflowGoes(p, "GenerateTemplateConfig", r.utc, r.err, "wf_save")
  /\ UNCHANGED <<regVars, openHandles, vm, callVars, sk, hist, rmSince, crSince, saved, persisted>>

\* clone.go 32: clone.SaveTemplateConfig(ctx, utc) is called
WfSaveTemplateConfig(p) ==
  /\ pc[p] = "wf_save"
  /\ steps' = [steps EXCEPT ![p] = Append(@, Step("SaveTemplateConfig", Pending))]
  /\ Goto(p, "load_open", utc[p], nil, <<>>)
  /\ UNCHANGED <<regVars, openHandles, vm, callVars, sk, hist, rmSince, crSince, saved, persisted>>

\* clone.go 36-39: host.SaveAsTemplate(ctx), and the final return
WfSaveAsTemplate(p) ==
  /\ pc[p] = "wf_mark"
  /\ \E fail \in BOOLEAN :
       LET r == hostSaveAsTemplate(vm[callID[p]], fail)
       IN /\ vm' = [vm EXCEPT ![callID[p]] = r.vm]
          /\ WorkflowGoes(p, "SaveAsTemplate", Nil, r.err, "done")
          /\ NoteLate(p, callID[p], r.err)
  /\ UNCHANGED <<regVars, openHandles, callVars, sk, hist, rmSince, crSince, persisted>>

\* -------------------------------------------------- the codec on its own
\* every caller holds a template config, of any resources
InitCodec ==
  /\ nsExists = TRUE
  /\ store = [i \in {} |-> <<>>]
  /\ writer = [i \in {} |-> ""]
  /\ openHandles = {}
  /\ vm = [i \in TemplateIDs |-> [nics |-> TRUE, gcs |-> TRUE, template |-> FALSE]]
  /\ op = [p \in Procs |-> "Codec"]
  /\ pc = [p \in Procs |-> "encode"]
  /\ callID \in [Procs -> TemplateIDs]
  /\ utc \in [Procs -> {Some(UVMTemplateConfig(id, r)) :
                           id \in TemplateIDs, r \in SeqsUpTo(Kinds, MaxLen)}]
  /\ \A p \in Procs : utc[p][1].UVMID = callID[p]
  /\ sk = [p \in Procs |-> NoHandle]
  /\ err = [p \in Procs |-> nil]
  /\ data = [p \in Procs |-> <<>>]
  /\ ret = [p \in Procs |-> NoRet]
  /\ hist = [p \in Procs |-> <<>>]
  /\ steps = [p \in Procs |-> <<>>]
  /\ pre = [p \in Procs |-> "other"]
  /\ rmSince = [p \in Procs |-> FALSE]
  /\ crSince = [p \in Procs |-> FALSE]
  /\ saved = [i \in TemplateIDs |-> Unsaved]
  /\ persisted = {}
  /\ calls = 0

\* clone.go 70-78: encodedBytes, err := encodeTemplateConfig(utc)
CodecEncode(p) ==
  /\ pc[p] = "encode"
  /\ LET r == encodeTemplateConfig(utc[p][1])
     IN /\ pc' = [pc EXCEPT ![p] = IF r.err # nil THEN "done" ELSE "decode"]
        /\ data' = [data EXCEPT ![p] = r.bytes]
        /\ err' = [err EXCEPT ![p] = r.err]
        /\ ret' = [ret EXCEPT ![p] = [utc |-> Nil, err |-> r.err]]
  /\ UNCHANGED <<regVars, openHandles, vm, callVars, utc, sk, hist, steps, rmSince,
                 crSince, saved, persisted>>

\* clone.go 80-89: utc, err := decodeTemplateConfig(encodedBytes)
CodecDecode(p) ==
  /\ pc[p] = "decode"
  /\ LET r == decodeTemplateConfig(data[p])
     IN /\ pc' = [pc EXCEPT ![p] = "done"]
        /\ err' = [err EXCEPT ![p] = r.err]
        /\ ret' = [ret EXCEPT ![p] = r]
  /\ UNCHANGED <<regVars, openHandles, vm, callVars, utc, sk, data, hist, steps, rmSince,
                 crSince, saved, persisted>>

NextCodec == \E p \in Procs : CodecEncode(p) \/ CodecDecode(p)

\* ----------------------------------------------------------- specification
\* a caller of package clone: SaveTemplateConfig, FetchTemplateConfig or
\* RemoveSavedTemplateConfig
CloneOps == {"Save", "Fetch", "Remove"}
BeginClone(p) == BeginOf(p, CloneOps)

\* a shim that saves its VM as a template (saveAsTemplate), or discards the
\* saved state of a template (RemoveSavedTemplateConfig)
TemplateOps == {"Workflow", "Remove"}
BeginTemplate(p) == BeginOf(p, TemplateOps)

\* the callers of package clone, against one registry
NextClone ==
  \E p \in Procs :
    \/ BeginClone(p)
    \/ LoadOpen(p)
    \/ LoadGet(p)
    \/ LoadRet(p)
    \/ StoreOpen(p)
    \/ StoreCreate(p)
    \/ StoreRet(p)
    \/ RmOpen(p)
    \/ RmRemove(p)
    \/ RmRet(p)

\* the shims that run saveAsTemplate, against one registry
NextTemplate ==
  \E p \in Procs :
    \/ BeginTemplate(p)
    \/ WfRemoveAllNICs(p)
    \/ WfCloseGCSConnection(p)
    \/ WfGenerateTemplateConfig(p)
    \/ WfSaveTemplateConfig(p)
    \/ LoadOpen(p)
    \/ LoadGet(p)
    \/ LoadRet(p)
    \/ StoreOpen(p)
    \/ StoreCreate(p)
    \/ StoreRet(p)
    \/ WfSaveAsTemplate(p)
    \/ RmOpen(p)
    \/ RmRemove(p)
    \/ RmRet(p)

Next == NextClone \/ NextTemplate

SpecClone == Init /\ [][NextClone]_vars
SpecTemplate == Init /\ [][NextTemplate]_vars
\* the callers of package clone, against a registry that holds a record
SpecStored == InitStored /\ [][NextClone]_vars
\* encodeTemplateConfig followed by decodeTemplateConfig
SpecCodec == InitCodec /\ [][NextCodec]_vars
Spec == Init /\ [][Next]_vars

\* ------------------------------------------------------------------ claims
\* the registry itself failed (neither success nor NotFound) during the call
StoreFailed(h) == \E i \in 1..Len(h) : h[i].err.type = "StoreError"
\* the call wrote a record: one of its Creates succeeded
Created(h) == \E i \in 1..Len(h) : h[i] = Event("Create", nil)
\* the call invoked Create
CalledCreate(h) == \E i \in 1..Len(h) : h[i].op = "Create"
\* the existence probe of a SaveTemplateConfig has returned / what it returned
Probed(h) == Len(h) >= 1 /\ (h[1].err # nil \/ Len(h) >= 2)
ProbeErr(h) == IF h[1].err # nil THEN h[1].err ELSE h[2].err
\* p's call is for an id whose Save had returned success when the call
\* began, with no removal of the id since
AfterSave(p) == pre[p] \in {"saved", "late"} /\ ~rmSince[p]
Done(p) == pc[p] = "done"
Failed(p) == Done(p) /\ ret[p].err # nil

\* C1: a SaveTemplateConfig called after a Save of the same id returned
\* success, with no removal of that id since, returns an error, and the
\* record of the id stays the one the first Save stored.
C1_NoDuplicateSave ==
  \A p \in Procs :
    (op[p] = "Save" /\ AfterSave(p)) =>
      /\ HasRecord(callID[p])
      /\ store[callID[p]][configKey] = saved[callID[p]].rec
      /\ Done(p) => ret[p].err # nil

\* a second Save of an id found the first Save's record and was refused
C1_Witness ==
  \E p \in Procs :
    /\ op[p] = "Save" /\ AfterSave(p) /\ Done(p)
    /\ ~StoreFailed(hist[p])
    /\ ret[p].err # nil
    /\ saved[callID[p]].utc # Nil
    /\ saved[callID[p]].utc[1].Resources # <<>>

\* C2: RemoveSavedTemplateConfig returns success whenever the registry does
\* not itself fail: with a record, without one, with the root key missing
\* (NotFound from Open) and when Remove reports NotFound; so does a second
\* call in a row; and after a successful call the id has no record, until
\* some call creates one.
C2_IdempotentRemoval ==
  \A p \in Procs :
    (op[p] = "Remove" /\ Done(p)) =>
      /\ ~StoreFailed(hist[p]) => ret[p].err = nil
      /\ (ret[p].err = nil /\ ~crSince[p]) => ~HasRecord(callID[p])

\* a Remove deleted a saved record, and the next Remove of the same id got
\* NotFound from the registry and succeeded too
C2_Witness ==
  \E p, q \in Procs :
    /\ p # q /\ callID[p] = callID[q]
    /\ op[p] = "Remove" /\ Done(p) /\ ret[p].err = nil
    /\ pre[p] = "saved" /\ Event("Remove", nil) = hist[p][2]
    /\ op[q] = "Remove" /\ Done(q) /\ ret[q].err = nil
    /\ pre[q] = "absent" /\ Len(hist[q]) = 3
    /\ IsNotFoundError(hist[q][2].err)

\* C3: a FetchTemplateConfig called after SaveTemplateConfig(config)
\* returned success, with no removal of the id since and no failure of the
\* registry itself, returns config: the same id and the same resources.
C3_FetchAfterSave ==
  \A p \in Procs :
    (op[p] = "Fetch" /\ AfterSave(p) /\ Done(p) /\ ~StoreFailed(hist[p])) =>
      /\ ret[p].err = nil
      /\ ret[p].utc = saved[callID[p]].utc
      /\ ret[p].utc # Nil
      /\ ret[p].utc[1].UVMID = callID[p]

\* a Fetch returned a saved config that carries a resource
C3_Witness ==
  \E p \in Procs :
    /\ op[p] = "Fetch" /\ AfterSave(p) /\ Done(p)
    /\ ret[p].err = nil
    /\ ret[p].utc # Nil
    /\ ret[p].utc[1].Resources # <<>>

\* C4: a FetchTemplateConfig of an id that has no record (none was created
\* since the call began, and the registry did not itself fail) returns no
\* configuration and an error the caller recognises as NotFound
\* (regstate.IsNotFoundError).
C4_FetchNotFound ==
  \A p \in Procs :
    (op[p] = "Fetch" /\ Done(p) /\ pre[p] = "absent" /\ ~crSince[p]
       /\ ~StoreFailed(hist[p])) =>
      /\ ret[p].utc = Nil
      /\ IsNotFoundError(ret[p].err)

\* the steps of saveAsTemplate, in the order of lines 18, 22, 27, 32, 36
Order == <<"RemoveAllNICs", "CloseGCSConnection", "GenerateTemplateConfig",
           "SaveTemplateConfig", "SaveAsTemplate">>

\* C5: in saveAsTemplate no step is invoked after a step that failed, and
\* the workflow returns exactly the error of that step; when
\* CloseGCSConnection fails, RemoveAllNICs has been performed and neither
\* GenerateTemplateConfig, SaveTemplateConfig (no registry operation at all)
\* nor SaveAsTemplate is called.
C5_FailFast ==
  \A p \in Procs :
    op[p] = "Workflow" =>
      LET s == steps[p]
          n == Len(s)
      IN /\ \A i \in 1..(n - 1) : s[i].err = nil
         /\ (n > 0 /\ s[n].err \notin {nil, Pending}) => (Done(p) /\ ret[p].err = s[n].err)
         /\ Failed(p) => (n > 0 /\ ret[p].err = s[n].err)
         /\ (n >= 2 /\ s[2].err # nil) =>
              /\ n = 2
              /\ s[1] = Step("RemoveAllNICs", nil)
              /\ s[2] = Step("CloseGCSConnection", HostError("CloseGCSConnection"))
              /\ ~vm[callID[p]].nics
              /\ hist[p] = <<>>
              /\ ret[p].err = HostError("CloseGCSConnection")

\* saveAsTemplate returned the error of a failed CloseGCSConnection
C5_Witness ==
  \E p \in Procs :
    /\ op[p] = "Workflow" /\ Failed(p)
    /\ Len(steps[p]) = 2
    /\ steps[p][2].name = "CloseGCSConnection"
    /\ ~vm[callID[p]].nics /\ vm[callID[p]].gcs

\* C6: a run of saveAsTemplate invokes its steps at most once each, in the
\* order detach, close, generate, persist, mark, each only after all the
\* earlier ones succeeded; a VM is a template only with its NICs removed,
\* its GCS connection closed and a SaveTemplateConfig of its id returned;
\* the run returns success only after all five steps succeeded.
C6_Ordering ==
  /\ \A p \in Procs :
       op[p] = "Workflow" =>
         LET s == steps[p]
             n == Len(s)
         IN /\ n <= 5
            /\ \A i \in 1..n : s[i].name = Order[i]
            /\ \A i \in 1..(n - 1) : s[i].err = nil
            /\ (n = 5 /\ s[5].err = nil) => vm[callID[p]].template
            /\ (Done(p) /\ ret[p].err = nil) => (n = 5 /\ \A i \in 1..n : s[i].err = nil)
  /\ \A id \in TemplateIDs :
       vm[id].template => (~vm[id].nics /\ ~vm[id].gcs /\ id \in persisted)

\* a run of saveAsTemplate went through all five steps and returned success
C6_Witness ==
  \E p \in Procs :
    /\ op[p] = "Workflow" /\ Done(p) /\ ret[p].err = nil
    /\ Len(steps[p]) = 5
    /\ vm[callID[p]].template
    /\ HasRecord(callID[p])

\* C7: SaveTemplateConfig encodes and calls Create only when its existence
\* probe failed with NotFound; when the probe found a record or failed with
\* another error, SaveTemplateConfig returns an error, has not called Create
\* and has done nothing to the registry but the probe.
C7_ProbeGate ==
  \A p \in Procs :
    op[p] = "Save" =>
      LET h == hist[p]
      IN /\ (pc[p] \in {"store_open", "store_create", "store_ret"} \/ CalledCreate(h)) =>
              (Probed(h) /\ IsNotFoundError(ProbeErr(h)))
         /\ (Done(p) /\ Probed(h) /\ ~IsNotFoundError(ProbeErr(h))) =>
              /\ ret[p].err # nil
              /\ \A i \in 1..Len(h) : h[i].op \in {"Open", "Get", "Close"}
              /\ Len(h) <= 3

\* a SaveTemplateConfig whose probe failed with an error other than NotFound
\* (on an id without a record) returned an error
C7_Witness ==
  \E p \in Procs :
    /\ op[p] = "Save" /\ Failed(p)
    /\ ~HasRecord(callID[p])
    /\ hist[p] = <<Event("Open", nil), Event("Get", StoreError("Get")), Event("Close", nil)>>

\* C8 as claimed: when saveAsTemplate returns an error, its id has no record
\* that was not there before the run (none was there when it began, and no
\* other call created one).
C8_FailedWorkflowNoNewRecord ==
  \A p \in Procs :
    (op[p] = "Workflow" /\ Failed(p) /\ pre[p] = "absent" /\ ~crSince[p]) =>
      ~HasRecord(callID[p])

\* C8 as amended: when saveAsTemplate returns the error of RemoveAllNICs,
\* CloseGCSConnection, GenerateTemplateConfig or SaveTemplateConfig, the run
\* has created no record; when it returns the error of SaveAsTemplate, the
\* record the run created stays in the registry, until an explicit removal.
C8_FailedWorkflowRecord ==
  \A p \in Procs :
    (op[p] = "Workflow" /\ Failed(p)) =>
      LET last == steps[p][Len(steps[p])]
          id == callID[p]
      IN IF last.name = "SaveAsTemplate"
         THEN /\ Created(hist[p])
              /\ ~rmSince[p] => (HasRecord(id) /\ writer[id] = p)
         ELSE /\ ~Created(hist[p])
              /\ (pre[p] = "absent" /\ ~crSince[p]) => ~HasRecord(id)

\* a run failed at SaveAsTemplate and left the record it had just created
C8_Witness ==
  \E p \in Procs :
    /\ op[p] = "Workflow" /\ Failed(p)
    /\ pre[p] = "absent"
    /\ steps[p][Len(steps[p])].name = "SaveAsTemplate"
    /\ HasRecord(callID[p]) /\ writer[callID[p]] = p
    /\ ~vm[callID[p]].template

\* C9: a SaveTemplateConfig that returns an error (from the probe, the
\* encoding or the store) has created no record: none of its Creates
\* succeeded, so a record of its id, if any, was written by another call.
C9_FailedSaveWritesNothing ==
  \A p \in Procs :
    (op[p] = "Save" /\ Failed(p)) =>
      /\ ~Created(hist[p])
      /\ \A i \in 1..Len(hist[p]) : hist[p][i].op # "Remove"

\* a SaveTemplateConfig passed the probe, failed in Create and returned an
\* error, with no record of its id in the registry
C9_Witness ==
  \E p \in Procs :
    /\ op[p] = "Save" /\ Failed(p)
    /\ CalledCreate(hist[p])
    /\ ~HasRecord(callID[p])

\* where a caller holds a handle: between a successful Open and the
\* deferred Close of the same helper
HeldAt == {"load_get", "load_ret", "store_create", "store_ret", "rm_remove", "rm_ret"}
Opens(h) == Cardinality({i \in 1..Len(h) : h[i] = Event("Open", nil)})
Closes(h) == Cardinality({i \in 1..Len(h) : h[i].op = "Close"})

\* C10: every handle a registry helper opens is closed before the helper
\* returns, on every path: the open handles are exactly those of the helpers
\* now running, one per such call at most and none shared; no handle is open
\* when no call is in progress.
C10_HandleRelease ==
  /\ openHandles = {sk[p] : p \in Procs} \ {NoHandle}
  /\ \A p \in Procs :
       /\ (sk[p] # NoHandle) <=> (pc[p] \in HeldAt)
       /\ Opens(hist[p]) - Closes(hist[p]) = IF sk[p] # NoHandle THEN 1 ELSE 0
       /\ \A q \in Procs \ {p} : sk[p] # NoHandle => sk[p] # sk[q]
  /\ (\A p \in Procs : Done(p)) => openHandles = {}

\* no call is in progress and no handle is open, after a call that closed
\* its handle on an error path and one that closed it on the not-found and
\* success paths
C10_Witness ==
  /\ openHandles = {}
  /\ \E p, q \in Procs :
       /\ p # q /\ Done(p) /\ Done(q)
       /\ hist[p] = <<Event("Open", nil), Event("Get", StoreError("Get")), Event("Close", nil)>>
       /\ Len(hist[q]) = 6
       /\ IsNotFoundError(hist[q][2].err)
       /\ hist[q][5] = Event("Create", nil)

\* the leading words of an error text: the format string up to its first verb
Prefix(e) == IF e.msg = <<>> THEN "" ELSE e.msg[1]
\* p's SaveTemplateConfig got NotFound from its existence probe
ProbedNotFound(p) == Probed(hist[p]) /\ IsNotFoundError(ProbeErr(hist[p]))

\* C11: two SaveTemplateConfig calls of one id can both get NotFound from
\* the probe and both call Create; then (with no removal of the id while
\* either call ran) at most one of them returns success,
\* the other returns the store's error, and the record is the encoding of
\* the successful caller's config, written by that caller.
C11_SaveRace ==
  \A p, q \in Procs :
    (p # q /\ op[p] = "Save" /\ op[q] = "Save" /\ callID[p] = callID[q]
       /\ ProbedNotFound(p) /\ ProbedNotFound(q) /\ Done(p) /\ Done(q)
       /\ ~rmSince[p] /\ ~rmSince[q]) =>
      LET id == callID[p]
      IN /\ ~(ret[p].err = nil /\ ret[q].err = nil)
         /\ ret[p].err = nil =>
              /\ HasRecord(id) /\ writer[id] = p
              /\ saved[id].ok /\ saved[id].utc # Nil
              /\ store[id][configKey] = encodeTemplateConfig(saved[id].utc[1]).bytes
              /\ DOMAIN store[id] = {configKey}
              /\ CalledCreate(hist[q]) =>
                   (~Created(hist[q])
                      /\ Prefix(ret[q].err) = "failed to store encoded template config:")

\* both callers got NotFound from the probe and both called Create: one
\* wrote the record, the other was refused because it exists
C11_Witness ==
  \E p, q \in Procs :
    /\ p # q /\ op[p] = "Save" /\ op[q] = "Save" /\ callID[p] = callID[q]
    /\ ProbedNotFound(p) /\ ProbedNotFound(q) /\ Done(p) /\ Done(q)
    /\ Created(hist[p]) /\ ret[p].err = nil
    /\ ~rmSince[p] /\ ~rmSince[q]
    /\ Len(hist[q]) >= 5
    /\ hist[q][5] = Event("Create", ExistsError(callID[q]))
    /\ ret[q].err # nil
    /\ saved[callID[p]].utc[1].Resources # <<>>

\* the registry operations of a load: a failed Open, or Open, Get, Close
ProbeLen(h) == IF h[1].err # nil THEN 1 ELSE 3
\* where a returned SaveTemplateConfig stopped: at the probe (line 147), at
\* the encoding (152) or in storePersistedUVMConfig (156)
SaveStage(p) ==
  IF ~ProbedNotFound(p) THEN "probe"
  ELSE IF Len(hist[p]) = ProbeLen(hist[p]) THEN "encode"
  ELSE "store"
\* the error storePersistedUVMConfig returned: of its Open, or of Create
StoreErr(h) ==
  IF h[ProbeLen(h) + 1].err # nil THEN h[ProbeLen(h) + 1].err ELSE h[ProbeLen(h) + 2].err
\* the text of e contains the word w
Mentions(e, w) == \E i \in 1..Len(e.msg) : e.msg[i] = w

\* C12 as claimed: an error SaveTemplateConfig returns for a failed encoding
\* or store names the failing stage and the template id, and an error
\* FetchTemplateConfig returns names the operation and the template id.
C12_ErrorContext ==
  \A p \in Procs :
    Failed(p) =>
      /\ (op[p] = "Save" /\ SaveStage(p) = "encode") =>
           /\ Prefix(ret[p].err) = "failed to encode template config:"
           /\ Mentions(ret[p].err, callID[p])
      /\ (op[p] = "Save" /\ SaveStage(p) = "store") =>
           /\ Prefix(ret[p].err) = "failed to store encoded template config:"
           /\ Mentions(ret[p].err, callID[p])
      /\ op[p] = "Fetch" =>
           /\ Prefix(ret[p].err) \in {"failed to fetch encoded template config:",
                                      "failed to decode template config:"}
           /\ Mentions(ret[p].err, callID[p])

\* C12 as amended: an error of SaveTemplateConfig or FetchTemplateConfig is
\* a new error whose text is the words of the failing stage (probe, encode,
\* store; fetch, decode: each stage has its own words) followed by the text
\* of the error of that stage; the words name the template id for the probe
\* stage only.
C12_ErrorStage ==
  \A p \in Procs :
    Failed(p) =>
      LET e == ret[p].err
          h == hist[p]
      IN /\ op[p] = "Save" =>
              /\ e.type = "errorString"
              /\ SaveStage(p) = "probe" =>
                   e.msg = <<"parent VM(ID:", callID[p], ") config shouldn't exit in registry">>
                             \o ErrText(ProbeErr(h))
              /\ SaveStage(p) = "encode" =>
                   /\ Len(e.msg) >= 3
                   /\ SubSeq(e.msg, 1, 3) = <<"failed to encode template config:",
                                              "error while encoding template config:", "gob:">>
              /\ SaveStage(p) = "store" =>
                   e.msg = <<"failed to store encoded template config:">> \o ErrText(StoreErr(h))
         /\ op[p] = "Fetch" =>
              /\ e.type = "errorString"
              /\ ProbeErr(h) # nil =>
                   e.msg = <<"failed to fetch encoded template config:">> \o ErrText(ProbeErr(h))
              /\ ProbeErr(h) = nil =>
                   /\ Len(e.msg) >= 3
                   /\ SubSeq(e.msg, 1, 3) = <<"failed to decode template config:",
                                              "error while decoding template config:", "gob:">>

\* a SaveTemplateConfig failed in the encoding and one failed in the store:
\* the two errors differ in their leading words, and neither names the id
C12_Witness ==
  \E p, q \in Procs :
    /\ Failed(p) /\ op[p] = "Save" /\ SaveStage(p) = "encode"
    /\ ~Mentions(ret[p].err, callID[p])
    /\ Failed(q) /\ op[q] = "Save" /\ SaveStage(q) = "store"
    /\ ~Mentions(ret[q].err, callID[q])
    /\ Prefix(ret[p].err) # Prefix(ret[q].err)

\* C13: in every step of every interleaving of Save, Fetch and Remove calls,
\* a record that is present keeps its content; a record appears only by the
\* Create of a SaveTemplateConfig of its id, with the bytes that call
\* encoded; a record disappears only by the Remove of a
\* RemoveSavedTemplateConfig of its id; an id has one record at most (one
\* value, under configKey).
C13_NoOverwrite ==
  [][\A id \in TemplateIDs :
       /\ (HasRecord(id) /\ HasRecord(id)') => store'[id] = store[id]
       /\ (~HasRecord(id) /\ HasRecord(id)') =>
            \E p \in Procs :
              /\ op[p] = "Save" /\ callID[p] = id
              /\ pc[p] = "store_create" /\ pc'[p] = "store_ret"
              /\ err'[p] = nil
              /\ store'[id] = [k \in {configKey} |-> data[p]]
       /\ (HasRecord(id) /\ ~HasRecord(id)') =>
            \E p \in Procs :
              /\ op[p] = "Remove" /\ callID[p] = id
              /\ pc[p] = "rm_remove" /\ pc'[p] = "rm_ret"
       /\ HasRecord(id)' => DOMAIN store'[id] = {configKey}]_vars

\* a SaveTemplateConfig that passed the probe was refused by Create because
\* another call had written the record meanwhile, with other content
C13_Witness ==
  \E p \in Procs :
    /\ op[p] = "Save" /\ pc[p] = "store_ret"
    /\ err[p] = ExistsError(callID[p])
    /\ HasRecord(callID[p])
    /\ data[p] # store[callID[p]][configKey]

\* the resources of a config are all of registered types
AllRegistered(c) == \A i \in 1..Len(c.Resources) : c.Resources[i] \in Registered

\* C14: for a template config whose resources are all of registered types
\* (VSMBShare, SCSIMount), encodeTemplateConfig succeeds, and
\* decodeTemplateConfig of the bytes succeeds and returns a config with the
\* same id and the same resources, of the same types in the same order.
C14_RoundTrip ==
  \A p \in Procs :
    (op[p] = "Codec" /\ AllRegistered(utc[p][1])) =>
      /\ pc[p] # "encode" => (err[p] = nil /\ pc[p] \in {"decode", "done"})
      /\ pc[p] = "decode" => data[p] # <<>>
      /\ pc[p] = "done" =>
           /\ ret[p].err = nil
           /\ ret[p].utc # Nil
           /\ ret[p].utc[1].UVMID = utc[p][1].UVMID
           /\ ret[p].utc[1].Resources = utc[p][1].Resources

\* a config with two resources of different types came back from the codec
C14_Witness ==
  \E p \in Procs :
    /\ op[p] = "Codec" /\ pc[p] = "done"
    /\ utc[p][1].Resources = <<"SCSIMount", "VSMBShare">>
    /\ ret[p].err = nil
    /\ ret[p].utc = utc[p]

\* p's FetchTemplateConfig read the record and failed to decode it
DecodeFailed(p) == op[p] = "Fetch" /\ Failed(p) /\ ProbeErr(hist[p]) = nil

\* C15: no step of a FetchTemplateConfig call (Open, Get, the deferred
\* Close, the decoding and the return), on any of its paths, changes the
\* registry: the records and their contents stay as they are.
C15_FetchReadOnly ==
  [][\A p \in Procs :
       (op[p] = "Fetch" /\ pc[p] # "done" /\ pc'[p] # pc[p]) =>
         (store' = store /\ nsExists' = nsExists)]_vars

\* a FetchTemplateConfig failed to decode a damaged record, and the record
\* is still in the registry
C15_Witness ==
  \E p \in Procs :
    /\ DecodeFailed(p)
    /\ ~rmSince[p]
    /\ HasRecord(callID[p])
    /\ store[callID[p]][configKey] \in CorruptBlobs(callID[p])

\* C16: a FetchTemplateConfig that reads a record whose bytes are cut short,
\* malformed or carry a resource type that is not registered returns no
\* config at all (nil, not a partly filled one) and the error of the
\* decoding: the decoder's error under the words of the decode stage.
C16_UndecodableRecord ==
  \A p \in Procs :
    (op[p] = "Fetch" /\ Done(p) /\ Probed(hist[p]) /\ ProbeErr(hist[p]) = nil
       /\ ~rmSince[p] /\ HasRecord(callID[p])
       /\ store[callID[p]][configKey] \in CorruptBlobs(callID[p])) =>
      /\ ret[p].utc = Nil
      /\ ret[p].err # nil
      /\ Len(ret[p].err.msg) > 3
      /\ SubSeq(ret[p].err.msg, 1, 3) = <<"failed to decode template config:",
                                          "error while decoding template config:", "gob:">>

\* a FetchTemplateConfig read a record with a resource of a type that is not
\* registered (after its id was read) and returned no config
C16_Witness ==
  \E p \in Procs :
    /\ DecodeFailed(p) /\ ~rmSince[p] /\ HasRecord(callID[p])
    /\ store[callID[p]][configKey] \in UnregisteredBlobs(callID[p])
    /\ gobDecode(store[callID[p]][configKey]).utc.UVMID = callID[p]
    /\ ret[p].utc = Nil

\* p's saveAsTemplate has ended after one of its steps failed
RunFailed(p) ==
  /\ op[p] = "Workflow" /\ Done(p)
  /\ steps[p] # <<>>
  /\ steps[p][Len(steps[p])].err # nil

\* C17: when saveAsTemplate ends after a failed step, what the earlier steps
\* did is still there: the NICs are removed once RemoveAllNICs succeeded,
\* the GCS connection is closed once CloseGCSConnection succeeded, the
\* record the run created is in the registry (unless another call removed
\* it); the run has undone nothing (no Remove in the registry) and has
\* invoked no step twice.
C17_NoRollback ==
  \A p \in Procs :
    RunFailed(p) =>
      LET s == steps[p]
          n == Len(s)
          h == hist[p]
          id == callID[p]
      IN /\ ret[p].err # nil
         /\ n >= 2 => ~vm[id].nics
         /\ n >= 3 => ~vm[id].gcs
         /\ n = 5 => (Created(h) /\ (~rmSince[p] => (HasRecord(id) /\ writer[id] = p)))
         /\ \A i \in 1..Len(h) : h[i].op # "Remove"
         /\ \A i, j \in 1..n : i # j => s[i].name # s[j].name
         /\ Cardinality({i \in 1..Len(h) : h[i].op = "Create"}) <= 1
         /\ Cardinality({i \in 1..Len(h) : h[i].op = "Get"}) <= 1

\* a run failed at GenerateTemplateConfig: the NICs stay removed and the GCS
\* connection stays closed, and the registry was not touched
C17_Witness ==
  \E p \in Procs :
    /\ RunFailed(p)
    /\ Len(steps[p]) = 3
    /\ steps[p][3] = Step("GenerateTemplateConfig", HostError("GenerateTemplateConfig"))
    /\ ~vm[callID[p]].nics /\ ~vm[callID[p]].gcs /\ ~vm[callID[p]].template
    /\ hist[p] = <<>>

\* p runs saveAsTemplate for an id of which an earlier run had failed at
\* SaveAsTemplate, after its SaveTemplateConfig succeeded, when p's run
\* began; and no RemoveSavedTemplateConfig of the id has run since
AfterLateFailure(p) == op[p] = "Workflow" /\ pre[p] = "late" /\ ~rmSince[p]
\* what SaveTemplateConfig returns when its probe finds a record
ExistingRecordError(id) ==
  Errorf(<<"parent VM(ID:", id, ") config shouldn't exit in registry">>, nil)

\* C18: after a run of saveAsTemplate failed at SaveAsTemplate (its
\* SaveTemplateConfig had succeeded), a later run for the same id, as long as
\* no RemoveSavedTemplateConfig of the id is called, never calls
\* SaveAsTemplate and never succeeds; when it gets to SaveTemplateConfig it
\* fails there, without calling Create, with the error of the existing
\* record (or of a failure of the registry itself); the record stays.
C18_RetryBlocked ==
  \A p \in Procs :
    AfterLateFailure(p) =>
      LET s == steps[p]
          n == Len(s)
          id == callID[p]
      IN /\ pc[p] # "wf_mark"
         /\ n <= 4
         /\ \A i \in 1..n : s[i].name # "SaveAsTemplate"
         /\ HasRecord(id)
         /\ ~CalledCreate(hist[p])
         /\ Done(p) => ret[p].err # nil
         /\ (Done(p) /\ n = 4) =>
              /\ s[4] = Step("SaveTemplateConfig", ret[p].err)
              /\ ~StoreFailed(hist[p]) => ret[p].err = ExistingRecordError(id)

\* the retry of a run that had failed at SaveAsTemplate got through detach,
\* close and generate and was refused by SaveTemplateConfig
C18_Witness ==
  \E p \in Procs :
    /\ AfterLateFailure(p) /\ Done(p)
    /\ Len(steps[p]) = 4
    /\ ret[p].err = ExistingRecordError(callID[p])
    /\ hist[p] = <<Event("Open", nil), Event("Get", nil), Event("Close", nil)>>

====
